---- MODULE Spec2Model ----
(***************************************************************************)
(* Model of the spreadsheet extraction layer of src/main.py:               *)
(*   _normalize_col, detect_header_and_parse, tidy_from_sheets,            *)
(*   _to_number, load_medicos_from_excel and the script's top-level flow.  *)
(*                                                                         *)
(* Text is a sequence of one-character strings, so that trimming, case     *)
(* folding, accent replacement and substring search are computed the way   *)
(* the code computes them.  An empty spreadsheet cell is the value NaN.    *)
(***************************************************************************)
EXTENDS Integers, Sequences, FiniteSets, TLC

VARIABLES
    pc,         \* position of the script / of the function under study
    excel,      \* the workbook: a sequence of sheets [name, grid, unreadable]
    sheet,      \* the sheet handed to detect_header_and_parse on its own
    detected,   \* what detect_header_and_parse returned: for `sheet`, or in
                \* the script one entry per sheet of the workbook
    frames,     \* tidy_from_sheets: one long frame per accepted sheet
    df,         \* tidy_from_sheets' result (`full`), a sequence of rows
    med_frames, \* load_medicos_from_excel: one frame per accepted sheet
    med_df,     \* load_medicos_from_excel's result
    col,        \* the text _normalize_col is applied to
    n_norm,     \* how many times _normalize_col has been applied to col
    arg,        \* the argument of the function under study
    num         \* the value _to_number returned

vars == <<pc, excel, sheet, detected, frames, df, med_frames, med_df,
          col, n_norm, arg, num>>

----------------------------------------------------------------------------
(* Bounds of the model.                                                    *)

MaxNormLen == 4
MaxNumLen == 4
MaxApply == 2
MaxSheets == 2
MaxTitleRows == 5
MaxDataRows == 2

----------------------------------------------------------------------------
(* Values.                                                                 *)

\* An empty cell (pandas NaN): a one-token text that no cell text equals.
NaN == <<"NaN">>

\* Python's None, returned by detect_header_and_parse.
None == [kind |-> "None"]

\* An exception leaving the call.
Raise == [kind |-> "raise"]

----------------------------------------------------------------------------
(* Python / pandas string primitives, on sequences of characters.          *)

UPPERS == <<"A","B","C","D","E","F","G","H","I","J","K","L","M","N","O","P",
            "Q","R","S","T","U","V","W","X","Y","Z",
            "Á","Ã","Â","É","Ê","Í","Î","Ó","Õ","Ô","Ú","Ü","Ç">>
LOWERS == <<"a","b","c","d","e","f","g","h","i","j","k","l","m","n","o","p",
            "q","r","s","t","u","v","w","x","y","z",
            "á","ã","â","é","ê","í","î","ó","õ","ô","ú","ü","ç">>

DIGITS == {"0","1","2","3","4","5","6","7","8","9"}

IsSpace(c) == c \in {" ", "\t", "\n"}

LowerChar(c) ==
    IF \E i \in 1..Len(UPPERS) : UPPERS[i] = c
    THEN LOWERS[CHOOSE i \in 1..Len(UPPERS) : UPPERS[i] = c]
    ELSE c

UpperChar(c) ==
    IF \E i \in 1..Len(LOWERS) : LOWERS[i] = c
    THEN UPPERS[CHOOSE i \in 1..Len(LOWERS) : LOWERS[i] = c]
    ELSE c

\* str.lower()
Lower(s) == [i \in 1..Len(s) |-> LowerChar(s[i])]

\* str.upper()
Upper(s) == [i \in 1..Len(s) |-> UpperChar(s[i])]

\* str.capitalize(): first character upper case, the rest lower case.
Capitalize(s) ==
    [i \in 1..Len(s) |-> IF i = 1 THEN UpperChar(s[i]) ELSE LowerChar(s[i])]

RECURSIVE LStrip(_)
LStrip(s) == IF s # <<>> /\ IsSpace(Head(s)) THEN LStrip(Tail(s)) ELSE s

RECURSIVE RStrip(_)
RStrip(s) ==
    IF s # <<>> /\ IsSpace(s[Len(s)]) THEN RStrip(SubSeq(s, 1, Len(s) - 1)) ELSE s

\* str.strip()
Strip(s) == RStrip(LStrip(s))

\* str.replace(old, new) for one-character old and new.
ReplaceChar(s, old, new) == [i \in 1..Len(s) |-> IF s[i] = old THEN new ELSE s[i]]

\* `sub in s`
Contains(sub, s) ==
    \E i \in 1..(Len(s) - Len(sub) + 1) : SubSeq(s, i, i + Len(sub) - 1) = sub

\* any(k in s for k in keys)
ContainsAny(keys, s) == \E k \in keys : Contains(k, s)

\* str.replace(old, new): every non-overlapping occurrence, left to right.
RECURSIVE Replace(_, _, _)
Replace(s, old, new) ==
    IF Len(s) < Len(old) \/ old = <<>> THEN s
    ELSE IF SubSeq(s, 1, Len(old)) = old
         THEN new \o Replace(SubSeq(s, Len(old) + 1, Len(s)), old, new)
         ELSE <<Head(s)>> \o Replace(Tail(s), old, new)

\* Series.str.replace(old, new, case=False): the match ignores case.
RECURSIVE ReplaceNoCase(_, _, _)
ReplaceNoCase(s, old, new) ==
    IF Len(s) < Len(old) \/ old = <<>> THEN s
    ELSE IF Lower(SubSeq(s, 1, Len(old))) = Lower(old)
         THEN new \o ReplaceNoCase(SubSeq(s, Len(old) + 1, Len(s)), old, new)
         ELSE <<Head(s)>> \o ReplaceNoCase(Tail(s), old, new)

\* re.sub(r"\s+", " ", s): every run of whitespace becomes one space.
RECURSIVE CollapseSpaces(_)
CollapseSpaces(s) ==
    IF s = <<>> THEN <<>>
    ELSE IF IsSpace(Head(s))
         THEN <<" ">> \o CollapseSpaces(LStrip(s))
         ELSE <<Head(s)>> \o CollapseSpaces(Tail(s))

\* str(cell) / Series.astype(str): an empty cell becomes the text "nan".
AsStr(v) == IF v = NaN THEN <<"n","a","n">> ELSE v

\* All texts over alphabet A of length at most n.
RECURSIVE TextsUpTo(_, _)
TextsUpTo(A, n) ==
    IF n = 0 THEN {<<>>}
    ELSE LET shorter == TextsUpTo(A, n - 1)
         IN  shorter \cup {Append(s, c) : s \in shorter, c \in A}

----------------------------------------------------------------------------
(* _normalize_col                                                          *)

\* The chain of .replace(accented, plain) calls, in the order of the code.
ACCENTS == << <<"á","a">>, <<"ã","a">>, <<"â","a">>,
              <<"é","e">>, <<"ê","e">>,
              <<"í","i">>, <<"î","i">>,
              <<"ó","o">>, <<"õ","o">>, <<"ô","o">>,
              <<"ú","u">>, <<"ü","u">>,
              <<"ç","c">> >>

RECURSIVE ReplaceAccents(_, _)
ReplaceAccents(s, k) ==
    IF k > Len(ACCENTS) THEN s
    ELSE ReplaceAccents(ReplaceChar(s, ACCENTS[k][1], ACCENTS[k][2]), k + 1)

\* A plausible slip: the text is lower-cased after the accent replacements, so
\* an upper-case accented letter keeps its accent on the first pass.
NormalizeLowerLast(c) == CollapseSpaces(Lower(ReplaceAccents(Strip(AsStr(c)), 1)))

_normalize_col(c) == CollapseSpaces(ReplaceAccents(Lower(Strip(AsStr(c))), 1))

----------------------------------------------------------------------------
(* _to_number                                                              *)

\* np.nan (returned for a missing input) and pd.NA (returned when float()
\* raises): the two values the code uses for "Missing".
NpNan == [kind |-> "nan"]
PdNA == [kind |-> "NA"]

IsMissing(v) == v \in {NpNan, PdNA}

RECURSIVE DigitsToInt(_)
DigitsToInt(ds) ==
    IF ds = <<>> THEN 0
    ELSE 10 * DigitsToInt(SubSeq(ds, 1, Len(ds) - 1))
         + (CHOOSE d \in 0..9 : ToString(d) = ds[Len(ds)])

Count(c, s) == Cardinality({i \in 1..Len(s) : s[i] = c})

\* A decimal value num / 10^scale, with trailing fractional zeros removed so
\* that equal numbers are equal records (1500.00 is 1500).
RECURSIVE Float(_, _)
Float(n, scale) ==
    IF scale > 0 /\ n % 10 = 0 THEN Float(n \div 10, scale - 1)
    ELSE [kind |-> "float", num |-> n, scale |-> scale]

\* float(txt) for a text of digits, commas, periods and minus signs: an
\* optional leading minus, digits with at most one period, at least one
\* digit; anything else raises ValueError (reported here as Raise).
PyFloat(txt) ==
    LET neg    == txt # <<>> /\ Head(txt) = "-"
        body   == IF neg THEN Tail(txt) ELSE txt
        digits == SelectSeq(body, LAMBDA c : c \in DIGITS)
        dot    == IF Count(".", body) = 1
                  THEN CHOOSE i \in 1..Len(body) : body[i] = "."
                  ELSE Len(body)
        ok     == /\ \A i \in 1..Len(body) : body[i] \in DIGITS \cup {"."}
                  /\ Count(".", body) <= 1
                  /\ digits # <<>>
    IN  IF ~ok THEN Raise
        ELSE Float((IF neg THEN -1 ELSE 1) * DigitsToInt(digits), Len(body) - dot)

\* re.sub(r"[^\d,.-]", "", txt)
KeepNumberChars(txt) == SelectSeq(txt, LAMBDA c : c \in DIGITS \cup {",", ".", "-"})

\* A plausible slip: the thousands separators are not removed when both
\* separators are present.
ToNumberKeepsPeriods(v) ==
    IF v = NaN THEN NpNan
    ELSE LET txt  == KeepNumberChars(AsStr(v))
             txt2 == IF Contains(<<",">>, txt)
                     THEN ReplaceChar(txt, ",", ".")
                     ELSE txt
             f    == PyFloat(txt2)
         IN  IF f = Raise THEN PdNA ELSE f

_to_number(v) ==
    IF v = NaN THEN NpNan
    ELSE LET txt  == KeepNumberChars(AsStr(v))
             txt2 == IF Contains(<<",">>, txt) /\ Contains(<<".">>, txt)
                     THEN ReplaceChar(Replace(txt, <<".">>, <<>>), ",", ".")
                     ELSE IF Contains(<<",">>, txt) /\ ~Contains(<<".">>, txt)
                          THEN ReplaceChar(txt, ",", ".")
                          ELSE txt
             f    == PyFloat(txt2)
         IN  IF f = Raise THEN PdNA ELSE f

----------------------------------------------------------------------------
(* excel.parse and DataFrame.dropna                                        *)

Unnamed(i) == <<"U","n","n","a","m","e","d",":"," ">> \o <<ToString(i - 1)>>

\* pandas names the columns from the header row: an empty header cell is
\* "Unnamed: <position>", a repeated name gets the suffix ".<k>".
ColumnNames(hdr) ==
    LET base == [i \in 1..Len(hdr) |-> IF hdr[i] = NaN THEN Unnamed(i) ELSE hdr[i]]
        dup(i) == Cardinality({j \in 1..(i - 1) : base[j] = base[i]})
    IN  [i \in 1..Len(hdr) |->
            IF dup(i) = 0 THEN base[i] ELSE base[i] \o <<".", ToString(dup(i))>>]

\* excel.parse(sheet_name, header=h): row h of the grid names the columns,
\* the rows below it are the data.  It raises when the sheet cannot be read
\* or has no row h.
Parse(sh, h) ==
    IF sh.unreadable \/ h >= Len(sh.grid) THEN Raise
    ELSE [kind    |-> "df",
          columns |-> ColumnNames(sh.grid[h + 1]),
          rows    |-> SubSeq(sh.grid, h + 2, Len(sh.grid))]

\* The subsequence of s at the positions in keep, in order.
RECURSIVE Pick(_, _, _)
Pick(s, keep, i) ==
    IF i > Len(s) THEN <<>>
    ELSE (IF i \in keep THEN <<s[i]>> ELSE <<>>) \o Pick(s, keep, i + 1)

\* df.dropna(how="all").dropna(axis=1, how="all")
DropEmpty(d) ==
    LET rows == SelectSeq(d.rows, LAMBDA r : \E j \in 1..Len(r) : r[j] # NaN)
        keep == {j \in 1..Len(d.columns) : \E i \in 1..Len(rows) : rows[i][j] # NaN}
    IN  [kind    |-> "df",
         columns |-> Pick(d.columns, keep, 1),
         rows    |-> [i \in 1..Len(rows) |-> Pick(rows[i], keep, 1)]]

\* df.empty
Empty(d) == Len(d.rows) = 0 \/ Len(d.columns) = 0

----------------------------------------------------------------------------
(* detect_header_and_parse                                                 *)

s_dia == <<"d","i","a">>
s_segunda == <<"s","e","g","u","n","d","a">>
s_terca == <<"t","e","r","c","a">>
s_terca_acc == <<"t","e","r","ç","a">>
s_quarta == <<"q","u","a","r","t","a">>
s_quinta == <<"q","u","i","n","t","a">>
s_sexta == <<"s","e","x","t","a">>
s_sabado == <<"s","a","b","a","d","o">>
s_sabado_acc == <<"s","á","b","a","d","o">>
s_manha == <<"m","a","n","h","a">>
s_manha_acc == <<"m","a","n","h","ã">>
s_tarde == <<"t","a","r","d","e">>

\* The weekday substrings of lines 76 and 85.
WEEKDAYS == {s_segunda, s_terca, s_terca_acc, s_quarta, s_quinta, s_sexta,
             s_sabado, s_sabado_acc}

HEADERS == <<0, 1, 2, 3, 4>>

\* The labels the chosen columns are renamed to.
Dia == <<"D","i","a">>
Manha == <<"M","a","n","h","ã">>
Tarde == <<"T","a","r","d","e">>

\* Lines 75-77: the first column whose normalized name contains "dia" or a
\* weekday; 0 stands for None.
ColDia(cols_norm) ==
    LET hits == {i \in 1..Len(cols_norm) :
                    Contains(s_dia, cols_norm[i]) \/ ContainsAny(WEEKDAYS, cols_norm[i])}
    IN  IF hits = {} THEN 0 ELSE CHOOSE i \in hits : \A j \in hits : i <= j

\* Line 78: assigned on every match, so the last matching column stays.
ColManha(cols_norm) ==
    LET hits == {i \in 1..Len(cols_norm) :
                    ContainsAny({s_manha, s_manha_acc}, cols_norm[i])}
    IN  IF hits = {} THEN 0 ELSE CHOOSE i \in hits : \A j \in hits : i >= j

\* Line 79: assigned on every match, so the last matching column stays.
ColTarde(cols_norm) ==
    LET hits == {i \in 1..Len(cols_norm) : Contains(s_tarde, cols_norm[i])}
    IN  IF hits = {} THEN 0 ELSE CHOOSE i \in hits : \A j \in hits : i >= j

\* Lines 82-86: the first column holds a weekday in some row.
FirstColumnHasDays(d) ==
    /\ Len(d.columns) >= 1
    /\ \E i \in 1..Len(d.rows) : ContainsAny(WEEKDAYS, Lower(AsStr(d.rows[i][1])))

\* Lines 67-97 for one header offset, on the table excel.parse returned.
\* The result is [kind |-> "continue"] when the loop goes on to the next
\* offset, Raise with the offset when line 95 raises KeyError, and otherwise
\* the table returned at line 97, with the locals of the call.
TryHeader(p, h) ==
    LET d         == DropEmpty(p)
        cols_norm == [i \in 1..Len(d.columns) |-> _normalize_col(d.columns[i])]
        dia0      == ColDia(cols_norm)
        col_manha == ColManha(cols_norm)
        col_tarde == ColTarde(cols_norm)
        col_dia   == IF dia0 = 0 /\ FirstColumnHasDays(d) THEN 1 ELSE dia0
        use_cols  == SelectSeq(<<col_dia, col_manha, col_tarde>>, LAMBDA c : c # 0)
        \* rename is a dict keyed by column: a later assignment to the same
        \* column replaces the earlier one.
        rename(c) == IF c = col_tarde THEN Tarde
                     ELSE IF c = col_manha THEN Manha
                     ELSE Dia
        labels    == [k \in 1..Len(use_cols) |-> rename(use_cols[k])]
        dia_at    == CHOOSE k \in 1..Len(labels) : labels[k] = Dia
        rows      == [i \in 1..Len(d.rows) |->
                        [k \in 1..Len(use_cols) |->
                            IF k = dia_at
                            THEN Strip(AsStr(d.rows[i][use_cols[k]]))
                            ELSE d.rows[i][use_cols[k]]]]
    IN  IF Empty(d) THEN [kind |-> "continue"]
        ELSE IF ~(col_dia # 0 /\ (col_manha # 0 \/ col_tarde # 0))
             THEN [kind |-> "continue"]
        ELSE IF \A k \in 1..Len(labels) : labels[k] # Dia
             THEN [kind |-> "raise", header |-> h, col_dia |-> col_dia,
                   col_manha |-> col_manha, col_tarde |-> col_tarde]
        ELSE [kind      |-> "df",
              header    |-> h,
              col_dia   |-> col_dia,
              col_manha |-> col_manha,
              col_tarde |-> col_tarde,
              names     |-> d.columns,
              columns   |-> labels,
              rows      |-> SelectSeq(rows, LAMBDA r : Len(r[dia_at]) > 0)]

\* The loop of line 62 from position k of HEADERS on.
RECURSIVE DetectFrom(_, _)
DetectFrom(sh, k) ==
    IF k > Len(HEADERS) THEN None
    ELSE LET h == HEADERS[k]
             p == Parse(sh, h)
             r == IF p = Raise THEN [kind |-> "continue"] ELSE TryHeader(p, h)
         IN  IF r.kind = "continue" THEN DetectFrom(sh, k + 1) ELSE r

detect_header_and_parse(sh) == DetectFrom(sh, 1)

----------------------------------------------------------------------------
(* tidy_from_sheets                                                        *)

s_consult == <<"c","o","n","s","u","l","t">>
s_ocupa == <<"o","c","u","p","a">>
s_nan == <<"n","a","n">>
s_None == <<"N","o","n","e">>

\* The categories of line 120.
DIAS == << <<"S","e","g","u","n","d","a">>, <<"T","e","r","ç","a">>,
           <<"Q","u","a","r","t","a">>, <<"Q","u","i","n","t","a">>,
           <<"S","e","x","t","a">>, <<"S","á","b","a","d","o">> >>

KnownDays == {DIAS[i] : i \in 1..Len(DIAS)}

\* A plausible slip: the "ocupa" exclusion is left out of the sheet filter.
IsScheduleSheetNoExclusion(name) == Contains(s_consult, _normalize_col(name))

\* Line 104.
IsScheduleSheet(name) ==
    LET s_norm == _normalize_col(name)
    IN  Contains(s_consult, s_norm) /\ ~Contains(s_ocupa, s_norm)

\* Lines 108-111.
CanonDia(v) ==
    Capitalize(ReplaceNoCase(ReplaceNoCase(Strip(AsStr(v)), s_terca, s_terca_acc),
                             s_sabado, s_sabado_acc))

\* A plausible slip: the "nan"/"None" placeholders are not blanked.
MedicoTextKeepsNan(v) == Strip(AsStr(v))

\* Line 115: Series.replace matches whole values, before the strip.
MedicoText(v) ==
    LET t == AsStr(v)
    IN  Strip(IF t \in {s_nan, s_None} THEN <<>> ELSE t)

\* Concatenation of a sequence of sequences.
RECURSIVE Flatten(_)
Flatten(ss) == IF ss = <<>> THEN <<>> ELSE Head(ss) \o Flatten(Tail(ss))

\* Lines 108-115 for the table d of the sheet named `name`: DataFrame.melt
\* emits, for each value variable in turn, one row per row of d for every
\* column that carries that label.  `cell` records the sheet cell the row was
\* melted from (the Médico value before line 115); it is not a column.
Melt(name, d) ==
    LET dia_at     == CHOOSE k \in 1..Len(d.columns) : d.columns[k] = Dia
        value_vars == SelectSeq(<<Manha, Tarde>>,
                          LAMBDA c : \E k \in 1..Len(d.columns) : d.columns[k] = c)
        positions  == Flatten([v \in 1..Len(value_vars) |->
                          SelectSeq([k \in 1..Len(d.columns) |-> k],
                                    LAMBDA k : d.columns[k] = value_vars[v])])
    IN  Flatten([q \in 1..Len(positions) |->
            [i \in 1..Len(d.rows) |->
                [Sala   |-> Strip(name),
                 Dia    |-> CanonDia(d.rows[i][dia_at]),
                 Turno  |-> d.columns[positions[q]],
                 Medico |-> MedicoText(d.rows[i][positions[q]]),
                 cell   |-> d.rows[i][positions[q]]]]])

\* What each call of line 105 returns: entry i is the result for sheet i, or
\* [kind |-> "skipped"] for a sheet line 104 rejects.
Detections(book) ==
    [i \in 1..Len(book) |->
        IF IsScheduleSheet(book[i].name)
        THEN detect_header_and_parse(book[i])
        ELSE [kind |-> "skipped"]]

\* The loop of lines 102-116 from sheet i on, with the frames collected so
\* far; dets[i] is what detect_header_and_parse returns for sheet i.  An
\* exception of detect_header_and_parse is not caught.
RECURSIVE TidyLoop(_, _, _, _)
TidyLoop(book, dets, i, acc) ==
    IF i > Len(book) THEN [kind |-> "ok", frames |-> acc]
    ELSE IF dets[i].kind = "skipped" THEN TidyLoop(book, dets, i + 1, acc)
    ELSE IF dets[i].kind = "raise" THEN [kind |-> "raise", at |-> i]
    ELSE IF dets[i].kind = "None" \/ Empty(dets[i]) THEN TidyLoop(book, dets, i + 1, acc)
    ELSE TidyLoop(book, dets, i + 1, Append(acc, Melt(book[i].name, dets[i])))

\* Lines 117-122: the frames concatenated, Dia made categorical (a value
\* outside the categories becomes NaN), Ocupado added.
Full(fs) ==
    LET full == Flatten(fs)
    IN  [i \in 1..Len(full) |->
            [Sala    |-> full[i].Sala,
             Dia     |-> IF full[i].Dia \in KnownDays THEN full[i].Dia ELSE NaN,
             Turno   |-> full[i].Turno,
             Medico  |-> full[i].Medico,
             Ocupado |-> Len(full[i].Medico) > 0]]

----------------------------------------------------------------------------
(* load_medicos_from_excel                                                 *)

s_medic == <<"m","e","d","i","c">>
s_nome == <<"n","o","m","e">>
s_medico == <<"m","e","d","i","c","o">>
s_crm == <<"c","r","m">>
s_especial == <<"e","s","p","e","c","i","a","l">>
s_planos == <<"p","l","a","n","o","s">>
s_plano == <<"p","l","a","n","o">>
s_valor == <<"v","a","l","o","r">>
s_aluguel == <<"a","l","u","g","u","e","l">>
s_negoci == <<"n","e","g","o","c","i">>
s_exclus == <<"e","x","c","l","u","s">>
s_divid == <<"d","i","v","i","d">>

\* The conditions of lines 240-246, in the order of the code, each with the
\* canonical name it assigns.
GroupMatches(g, c) ==
    CASE g = 1 -> Contains(s_nome, c) \/ Contains(s_medico, c)
      [] g = 2 -> c = s_crm \/ Contains(s_crm, c)
      [] g = 3 -> Contains(s_especial, c)
      [] g = 4 -> Contains(s_planos, c) \/ c = s_plano
      [] g = 5 -> Contains(s_valor, c) \/ Contains(s_aluguel, c) \/ Contains(s_negoci, c)
      [] g = 6 -> Contains(s_exclus, c)
      [] g = 7 -> Contains(s_divid, c)

CANON == <<"Médico", "CRM", "Especialidade", "Planos", "Valor Aluguel",
           "Sala Exclusiva", "Sala Dividida">>

\* The order of the list of line 248.
KEEP == <<"Médico", "CRM", "Especialidade", "Planos", "Sala Exclusiva",
          "Sala Dividida", "Valor Aluguel">>

\* Lines 239-247: the seven `if`s all run, each overwriting rename[c], so
\* the last group that matches names the column; "" when none matches (the
\* column keeps its normalized name and is not kept).
RenameOf(c) ==
    LET hits == {g \in 1..Len(CANON) : GroupMatches(g, c)}
    IN  IF hits = {} THEN ""
        ELSE CANON[CHOOSE g \in hits : \A g2 \in hits : g >= g2]

\* Lines 236-251 for the parsed sheet dfm: the kept columns, in the order of
\* line 248; selecting a label takes every column that carries it.  `names`
\* keeps the normalized name (line 237) each kept column was renamed from.
MedicosFrame(dfm) ==
    LET canon     == [k \in 1..Len(dfm.columns) |-> RenameOf(_normalize_col(dfm.columns[k]))]
        keep      == SelectSeq(KEEP, LAMBDA c : \E k \in 1..Len(canon) : canon[k] = c)
        positions == Flatten([v \in 1..Len(keep) |->
                         SelectSeq([k \in 1..Len(canon) |-> k],
                                   LAMBDA k : canon[k] = keep[v])])
    IN  [names   |-> [q \in 1..Len(positions) |-> _normalize_col(dfm.columns[positions[q]])],
         columns |-> [q \in 1..Len(positions) |-> canon[positions[q]]],
         rows    |-> [i \in 1..Len(dfm.rows) |->
                        [q \in 1..Len(positions) |-> dfm.rows[i][positions[q]]]]]

\* The loop of lines 226-252 from sheet i on: a sheet whose parse raises, or
\* that is empty, or that has no recognized column, is skipped.
RECURSIVE MedicosLoop(_, _, _)
MedicosLoop(book, i, acc) ==
    IF i > Len(book) THEN acc
    ELSE IF ~Contains(s_medic, _normalize_col(book[i].name))
         THEN MedicosLoop(book, i + 1, acc)
    ELSE LET dfm == Parse(book[i], 0)
         IN  IF dfm = Raise THEN MedicosLoop(book, i + 1, acc)
             ELSE IF Empty(dfm) THEN MedicosLoop(book, i + 1, acc)
             ELSE IF MedicosFrame(dfm).columns = <<>> THEN MedicosLoop(book, i + 1, acc)
             ELSE MedicosLoop(book, i + 1, Append(acc, MedicosFrame(dfm)))

HasDuplicates(cs) == \E j, k \in 1..Len(cs) : j < k /\ cs[j] = cs[k]

\* The columns of pd.concat(frames): the union, in order of first appearance.
RECURSIVE UnionColumns(_, _)
UnionColumns(cs, acc) ==
    IF cs = <<>> THEN acc
    ELSE UnionColumns(Tail(cs),
            IF \E k \in 1..Len(acc) : acc[k] = Head(cs) THEN acc ELSE Append(acc, Head(cs)))

\* Lines 257-262 for one cell of column c.
FinalCell(c, v) ==
    CASE c \in {"Médico", "Planos"} -> Strip(AsStr(v))
      [] c = "Valor Aluguel" -> _to_number(v)
      [] c \in {"Sala Exclusiva", "Sala Dividida"} ->
            LET t == Upper(Strip(AsStr(v)))
            IN  IF t = <<"X">> THEN <<"S","i","m">> ELSE t
      [] OTHER -> v

\* Lines 253-263.  A frame with a repeated label makes out[c] a DataFrame:
\* pd.concat raises when the frames' columns differ, and lines 257-262 raise
\* on a repeated Médico, Planos, Valor Aluguel or Sala column.
MedicosOut(fs) ==
    LET dup     == {f \in 1..Len(fs) : HasDuplicates(fs[f].columns)}
        differ  == \E f, g \in 1..Len(fs) : fs[f].columns # fs[g].columns
        handled == {"Médico", "Planos", "Valor Aluguel", "Sala Exclusiva", "Sala Dividida"}
        raises  == \/ dup # {} /\ differ
                   \/ \E f \in dup : \E j, k \in 1..Len(fs[f].columns) :
                          j < k /\ fs[f].columns[j] = fs[f].columns[k]
                                /\ fs[f].columns[j] \in handled
        columns == IF dup # {} THEN fs[1].columns
                   ELSE UnionColumns(Flatten([f \in 1..Len(fs) |-> fs[f].columns]), <<>>)
        cell(f, r, q) ==
            IF dup # {} THEN fs[f].rows[r][q]
            ELSE IF \E k \in 1..Len(fs[f].columns) : fs[f].columns[k] = columns[q]
                 THEN fs[f].rows[r][CHOOSE k \in 1..Len(fs[f].columns) :
                                        fs[f].columns[k] = columns[q]]
                 ELSE NaN
    IN  IF fs = <<>> THEN [kind |-> "df", columns |-> <<>>, rows |-> <<>>]
        ELSE IF raises THEN Raise
        ELSE [kind    |-> "df",
              columns |-> columns,
              rows    |-> Flatten([f \in 1..Len(fs) |->
                              [r \in 1..Len(fs[f].rows) |->
                                  [q \in 1..Len(columns) |->
                                      FinalCell(columns[q], cell(f, r, q))]]])]

----------------------------------------------------------------------------
(* Inputs: sheet names, header rows, data rows, workbooks.                 *)
h_dia_manha_tarde == <<<<"D","I","A">>, <<"M","A","N","H","Ã">>, <<"T","A","R","D","E">>>>
h_two_manha == <<<<"D","i","a">>, <<"M","a","n","h","ã">>, <<"M","a","n","h","ã"," ","2">>>>
h_two_tarde == <<<<"D","i","a">>, <<"T","A","R","D","E">>, <<"T","a","r","d","e"," ","2">>>>
h_unnamed_day == <<NaN, <<"M","a","n","h","ã">>, <<"T","a","r","d","e">>>>
h_dia_is_manha == <<<<"D","i","a"," ","m","a","n","h","ã">>, <<"T","a","r","d","e">>, NaN>>
h_manha_is_tarde == <<<<"D","i","a">>, <<"M","a","n","h","ã","/","T","a","r","d","e">>, NaN>>
h_only_manha == <<<<"D","i","a">>, <<"M","a","n","h","ã">>, NaN>>
h_no_match == <<<<"S","a","l","a">>, <<"O","b","s">>, NaN>>
r_title == <<<<"E","S","C","A","L","A">>, NaN, NaN>>
r_title_tarde == <<<<"E","s","c","a","l","a"," ","t","a","r","d","e">>, NaN, NaN>>
r_blank == <<NaN, NaN, NaN>>
r_segunda == <<<<"S","e","g","u","n","d","a">>, <<"D","r","."," ","X">>, NaN>>
r_segunda_lower == <<<<"s","e","g","u","n","d","a">>, <<"N","o","n","e">>, <<" ">>>>
r_segunda_nan == <<<<"S","e","g","u","n","d","a">>, <<"D","r","."," ","X">>, <<" ","n","a","n"," ">>>>
r_terca == <<<<"T","E","R","C","A">>, NaN, <<"D","r","a","."," ","Y">>>>
r_sabado == <<<<" ","s","a","b","a","d","o"," ">>, <<"D","r","a","."," ","Y">>, <<"D","r","."," ","X">>>>
r_domingo == <<<<"D","o","m","i","n","g","o">>, <<"D","r","."," ","X">>, <<"D","r","."," ","X">>>>
r_no_day == <<NaN, <<"D","r","."," ","X">>, NaN>>
r_blank_day == <<<<" ">>, <<"D","r","."," ","X">>, <<"D","r","."," ","X">>>>
m_nome_crm_valor == <<<<"N","o","m","e">>, <<"C","R","M">>, <<"V","a","l","o","r"," ","A","l","u","g","u","e","l">>>>
m_valor_medico == <<<<"V","a","l","o","r"," ","M","é","d","i","c","o">>, <<"P","l","a","n","o","s">>, <<"S","a","l","a"," ","E","x","c","l","u","s","i","v","a">>>>
m_valor_and_aluguel == <<<<"M","é","d","i","c","o">>, <<"V","a","l","o","r">>, <<"A","l","u","g","u","e","l">>>>
m_no_match == <<<<"O","b","s">>, <<"D","a","t","a">>, NaN>>
r_doctor_x == <<<<"D","r","."," ","X">>, <<"1","2","3">>, <<"R","$"," ","1",".","5","0","0",",","0","0">>>>
r_doctor_y == <<<<"1","2","3","4",",","5","6">>, <<" ","P","l","a","n","o"," ","A"," ">>, <<"x">>>>
r_doctor_z == <<<<" ","D","r","a","."," ","Y"," ">>, <<"a","b","c">>, <<"1",".","2","3","4",",","5","6">>>>

n_consultorio_1 == <<"C","O","N","S","U","L","T","Ó","R","I","O"," ","1">>
n_consultorio_2 == <<" ","C","o","n","s","u","l","t","o","r","i","o"," ","2"," ">>
n_ocupacao_das_salas == <<"O","C","U","P","A","Ç","Ã","O"," ","D","A","S"," ","S","A","L","A","S">>
n_ocupacao_consultorios == <<"O","C","U","P","A","Ç","Ã","O"," ","C","O","N","S","U","L","T","Ó","R","I","O","S">>
n_medicos_1 == <<"M","É","D","I","C","O","S"," ","1">>
n_medicos_2 == <<"M","e","d","i","c","o","s"," ","2">>
n_resumo == <<"R","e","s","u","m","o">>

Sheet(name, grid) == [name |-> name, grid |-> grid, unreadable |-> FALSE]

\* A sheet whose excel.parse raises whatever the header offset.
Unreadable(name) == [name |-> name, grid |-> <<>>, unreadable |-> TRUE]

g_valid == <<h_dia_manha_tarde, r_segunda, r_terca>>
g_same_day_twice == <<h_dia_manha_tarde, r_segunda_nan, r_segunda_lower>>
g_unknown_days == <<r_title, h_dia_manha_tarde, r_domingo, r_no_day>>
g_dia_is_manha == <<h_dia_is_manha, r_segunda>>
g_no_match == <<h_no_match, r_segunda>>
g_only_manha == <<r_title, r_blank, h_only_manha, r_sabado>>
g_medicos_1 == <<m_nome_crm_valor, r_doctor_x>>
g_medicos_2 == <<m_valor_medico, r_doctor_y>>
g_medicos_3 == <<m_valor_and_aluguel, r_doctor_z>>
g_medicos_none == <<m_no_match, r_doctor_x>>

\* The sheets a workbook of the main specification is made of.
SheetPool ==
    {Sheet(n_consultorio_1, g) :
        g \in {g_valid, g_same_day_twice, g_unknown_days, g_dia_is_manha, g_no_match}}
    \cup {Sheet(n_consultorio_2, g) : g \in {g_valid, g_unknown_days, g_only_manha}}
    \cup {Sheet(n_ocupacao_das_salas, g_valid), Sheet(n_ocupacao_consultorios, g_valid),
          Sheet(n_resumo, g_valid), Unreadable(n_consultorio_1), Unreadable(n_medicos_2)}
    \cup {Sheet(n_medicos_1, g) : g \in {g_medicos_1, g_medicos_2, g_medicos_3, g_medicos_none}}
    \cup {Sheet(n_medicos_2, g) : g \in {g_medicos_1, g_medicos_2}}

\* Workbooks of 1..MaxSheets sheets; sheet names are unique in a workbook.
Workbooks ==
    {w \in TextsUpTo(SheetPool, MaxSheets) :
        /\ w # <<>>
        /\ \A i, j \in 1..Len(w) : i # j => w[i].name # w[j].name}

\* The sheets detect_header_and_parse is studied on: up to MaxTitleRows
\* title or blank rows, a header row, 1..MaxDataRows data rows.
DetectSheets ==
    {Sheet(n_consultorio_1, t \o <<h>> \o d) :
        t \in TextsUpTo({r_title, r_blank}, MaxTitleRows) \cup {<<r_title_tarde>>},
        h \in {h_dia_manha_tarde, h_two_manha, h_two_tarde, h_unnamed_day,
               h_dia_is_manha, h_manha_is_tarde, h_only_manha, h_no_match},
        d \in TextsUpTo({r_segunda, r_terca, r_domingo, r_no_day, r_blank_day},
                        MaxDataRows) \ {<<>>}}
    \cup {Unreadable(n_consultorio_1)}

NormAlphabet == {"a", "Á", "ã", "Ç", "ô", " ", "\t"}

NormInputs ==
    TextsUpTo(NormAlphabet, MaxNormLen)
    \cup {n_consultorio_1, n_consultorio_2, n_ocupacao_das_salas, n_medicos_1, NaN,
          <<"Á","Ã","Â","É","Ê","Í","Î","Ó","Õ","Ô","Ú","Ü","Ç">>,
          <<"á","ã","â","é","ê","í","î","ó","õ","ô","ú","ü","ç">>}

NumAlphabet == {"1", "0", ",", ".", "-", "a"}

n_1_234_56 == <<"1",".","2","3","4",",","5","6">>
n_1234_56 == <<"1","2","3","4",",","5","6">>
n_reais == <<"R","$"," ","1",".","5","0","0",",","0","0">>
n_abc == <<"a","b","c">>

NumInputs ==
    TextsUpTo(NumAlphabet, MaxNumLen) \cup {n_1_234_56, n_1234_56, n_reais, n_abc, NaN}

----------------------------------------------------------------------------
(* The script (lines 124-127 and 265) and the functions on their own.      *)

\* Line 124: df = tidy_from_sheets(excel).  An exception ends the script.
TidyFromSheets ==
    /\ pc = "tidy"
    /\ detected' = Detections(excel)
    /\ LET r == TidyLoop(excel, detected', 1, <<>>)
       IN  IF r.kind = "raise"
           THEN /\ pc' = "tidy_raised"
                /\ UNCHANGED <<frames, df>>
           ELSE /\ pc' = "check_empty"
                /\ frames' = r.frames
                /\ df' = Full(frames')
    /\ UNCHANGED <<excel, sheet, med_frames, med_df, col, n_norm, arg, num>>

\* Lines 125-127: st.error and st.stop() when no schedule row was found.
CheckEmpty ==
    /\ pc = "check_empty"
    /\ pc' = IF df = <<>> THEN "stopped" ELSE "medicos"
    /\ UNCHANGED <<excel, sheet, detected, frames, df, med_frames, med_df,
                   col, n_norm, arg, num>>

\* Line 265: med_df = load_medicos_from_excel(excel).
LoadMedicos ==
    /\ pc = "medicos"
    /\ med_frames' = MedicosLoop(excel, 1, <<>>)
    /\ med_df' = MedicosOut(med_frames')
    /\ pc' = IF med_df' = Raise THEN "medicos_raised" ELSE "done"
    /\ UNCHANGED <<excel, sheet, detected, frames, df, col, n_norm, arg, num>>

Init ==
    /\ pc = "tidy"
    /\ excel \in Workbooks
    /\ sheet = None /\ detected = <<>>
    /\ frames = <<>> /\ df = <<>> /\ med_frames = <<>> /\ med_df = None
    /\ col = <<>> /\ n_norm = 0 /\ arg = NaN /\ num = None

Next == TidyFromSheets \/ CheckEmpty \/ LoadMedicos

Spec == Init /\ [][Next]_vars

\* detect_header_and_parse on one sheet.
DetectHeaderAndParse ==
    /\ pc = "detect"
    /\ detected' = detect_header_and_parse(sheet)
    /\ pc' = "detected"
    /\ UNCHANGED <<excel, sheet, frames, df, med_frames, med_df, col, n_norm, arg, num>>

InitDetect ==
    /\ pc = "detect"
    /\ sheet \in DetectSheets
    /\ excel = <<>> /\ detected = None
    /\ frames = <<>> /\ df = <<>> /\ med_frames = <<>> /\ med_df = None
    /\ col = <<>> /\ n_norm = 0 /\ arg = NaN /\ num = None

NextDetect == DetectHeaderAndParse

SpecDetect == InitDetect /\ [][NextDetect]_vars

\* _normalize_col applied to a text, and again to its own result.
NormalizeCol ==
    /\ pc = "normalize"
    /\ n_norm < MaxApply
    /\ col' = _normalize_col(col)
    /\ n_norm' = n_norm + 1
    /\ UNCHANGED <<pc, excel, sheet, detected, frames, df, med_frames, med_df, arg, num>>

InitNorm ==
    /\ pc = "normalize"
    /\ arg \in NormInputs
    /\ col = arg
    /\ n_norm = 0
    /\ excel = <<>> /\ sheet = None /\ detected = None
    /\ frames = <<>> /\ df = <<>> /\ med_frames = <<>> /\ med_df = None
    /\ num = None

NextNorm == NormalizeCol

SpecNorm == InitNorm /\ [][NextNorm]_vars

\* _to_number applied to a cell.
ToNumber ==
    /\ pc = "to_number"
    /\ num' = _to_number(arg)
    /\ pc' = "returned"
    /\ UNCHANGED <<excel, sheet, detected, frames, df, med_frames, med_df, col, n_norm, arg>>

InitNum ==
    /\ pc = "to_number"
    /\ arg \in NumInputs
    /\ excel = <<>> /\ sheet = None /\ detected = None
    /\ frames = <<>> /\ df = <<>> /\ med_frames = <<>> /\ med_df = None
    /\ col = <<>> /\ n_norm = 0 /\ num = None

NextNum == ToNumber

SpecNum == InitNum /\ [][NextNum]_vars

----------------------------------------------------------------------------
(* Properties.                                                             *)

\* C1: every row tidy_from_sheets returns has a room that is the trimmed
\* name of a sheet whose normalized name contains "consult" and does not
\* contain "ocupa"; no row has the room "OCUPAÇÃO DAS SALAS".
C1_RoomsComeFromScheduleSheets ==
    \A i \in 1..Len(df) :
        /\ \E k \in 1..Len(excel) :
              /\ df[i].Sala = Strip(excel[k].name)
              /\ Contains(s_consult, _normalize_col(excel[k].name))
              /\ ~Contains(s_ocupa, _normalize_col(excel[k].name))
        /\ df[i].Sala # n_ocupacao_das_salas

\* C1's case: rows were extracted from a workbook that also holds a sheet
\* "OCUPAÇÃO DAS SALAS" whose columns satisfy the day/shift heuristics.
C1_Witness ==
    /\ pc = "check_empty"
    /\ df # <<>>
    /\ \E k \in 1..Len(excel) :
          /\ excel[k].name = n_ocupacao_das_salas
          /\ detect_header_and_parse(excel[k]).kind = "df"

\* The literal values "nan" and "None" read as empty.
NanNoneAsEmpty(t) == IF t \in {s_nan, s_None} THEN <<>> ELSE t

\* C2: for every row tidy_from_sheets returns, Ocupado is true iff the
\* doctor text of the row's cell, with the literal values "nan"/"None" read
\* as empty and then trimmed, is not empty; that text is the row's Médico.
C2_OcupadoIffDoctorText ==
    LET long == Flatten(frames)
    IN  /\ Len(df) = Len(long)
        /\ \A i \in 1..Len(df) :
              /\ df[i].Medico = Strip(NanNoneAsEmpty(AsStr(long[i].cell)))
              /\ df[i].Ocupado <=> (Strip(NanNoneAsEmpty(AsStr(long[i].cell))) # <<>>)

\* C2's case: the schedule holds a slot whose cell is empty, not occupied,
\* and a slot with a doctor, occupied.
C2_Witness ==
    /\ pc = "check_empty"
    /\ \E i \in 1..Len(df) : Flatten(frames)[i].cell = NaN /\ ~df[i].Ocupado
    /\ \E i \in 1..Len(df) : df[i].Medico = <<"D","r","."," ","X">> /\ df[i].Ocupado

\* C3: every row tidy_from_sheets returns has one of the six known days.
C3_DayIsKnown ==
    \A i \in 1..Len(df) : df[i].Dia \in KnownDays

\* C4: in the rows one sheet contributes, a (room, known day) pair has at
\* most one Manhã row and at most one Tarde row.
C4_OneRowPerRoomDayShift ==
    \A f \in 1..Len(frames) :
        \A i, j \in 1..Len(frames[f]) :
            ( /\ frames[f][i].Dia \in KnownDays
              /\ frames[f][i].Sala = frames[f][j].Sala
              /\ frames[f][i].Dia = frames[f][j].Dia
              /\ frames[f][i].Turno = frames[f][j].Turno ) => i = j

RECURSIVE Pow10(_)
Pow10(k) == IF k = 0 THEN 1 ELSE 10 * Pow10(k - 1)

\* The text the specification of parse_number converts: every character but
\* digits, comma, period and minus removed; with both separators the periods
\* removed and the comma made the decimal point; with a comma only, the
\* comma made the decimal point.
NumberText(t) ==
    LET kept     == SelectSeq(t, LAMBDA c : c \in DIGITS \cup {",", ".", "-"})
        comma    == \E i \in 1..Len(kept) : kept[i] = ","
        period   == \E i \in 1..Len(kept) : kept[i] = "."
        decimal(u) == [i \in 1..Len(u) |-> IF u[i] = "," THEN "." ELSE u[i]]
    IN  IF comma /\ period THEN decimal(SelectSeq(kept, LAMBDA c : c # "."))
        ELSE IF comma THEN decimal(kept)
        ELSE kept

\* t is a decimal numeral: an optional minus, then digits with at most one
\* period among them and at least one digit.
IsNumeral(t) ==
    LET body == IF t # <<>> /\ t[1] = "-" THEN Tail(t) ELSE t
    IN  /\ \A i \in 1..Len(body) : body[i] \in DIGITS \cup {"."}
        /\ Cardinality({i \in 1..Len(body) : body[i] = "."}) <= 1
        /\ \E i \in 1..Len(body) : body[i] \in DIGITS

\* The value v is the number the numeral t denotes.
Denotes(v, t) ==
    LET neg    == t[1] = "-"
        body   == IF neg THEN Tail(t) ELSE t
        digits == SelectSeq(body, LAMBDA c : c \in DIGITS)
        frac   == IF \E i \in 1..Len(body) : body[i] = "."
                  THEN Len(body) - (CHOOSE i \in 1..Len(body) : body[i] = ".")
                  ELSE 0
        n      == (IF neg THEN -1 ELSE 1) * DigitsToInt(digits)
    IN  v.kind = "float" /\ v.num * Pow10(frac) = n * Pow10(v.scale)

\* C5: _to_number never raises; a missing input gives Missing; otherwise the
\* result is the number denoted by the filtered and separator-converted
\* text, or Missing when that text is not a number; "1.234,56" and "1234,56"
\* give 1234.56, "R$ 1.500,00" gives 1500, "abc" gives Missing.
C5_ToNumber ==
    pc = "returned" =>
        /\ num # Raise
        /\ arg = NaN => IsMissing(num)
        /\ arg # NaN =>
              IF IsNumeral(NumberText(arg))
              THEN Denotes(num, NumberText(arg))
              ELSE IsMissing(num)
        /\ arg \in {n_1_234_56, n_1234_56} => num = [kind |-> "float", num |-> 123456, scale |-> 2]
        /\ arg = n_reais => num = [kind |-> "float", num |-> 1500, scale |-> 0]
        /\ arg = n_abc => IsMissing(num)

\* C5's case: a text with both separators was converted.
C5_Witness ==
    /\ pc = "returned"
    /\ arg = n_1_234_56
    /\ num.kind = "float"

\* C6: _normalize_col is idempotent: applied to its own result it returns
\* that result.
C6_NormalizeIdempotent ==
    n_norm >= 1 => _normalize_col(col) = col

\* C6's case: a text with whitespace and an upper-case accented letter has
\* been normalized twice, and normalization changed it.
C6_Witness ==
    /\ n_norm = 2
    /\ col # arg
    /\ \E i \in 1..Len(arg) : IsSpace(arg[i])
    /\ \E i \in 1..Len(arg) : arg[i] \in {"Á", "Ç"}

\* The leftmost column whose normalized name contains one of keys; 0 if none.
Leftmost(keys, names) ==
    LET hits == {i \in 1..Len(names) : ContainsAny(keys, _normalize_col(names[i]))}
    IN  IF hits = {} THEN 0 ELSE CHOOSE i \in hits : \A j \in hits : i <= j

\* C7: in the table detect_header_and_parse returns, the morning column is
\* the leftmost column whose name contains a morning keyword and the
\* afternoon column the leftmost whose name contains "tarde".
C7_LeftmostShiftColumn ==
    (pc = "detected" /\ detected.kind = "df") =>
        /\ detected.col_manha = Leftmost({s_manha, s_manha_acc}, detected.names)
        /\ detected.col_tarde = Leftmost({s_tarde}, detected.names)

\* The field of the first keyword group, in the order name, CRM,
\* Especialidade, Planos, Valor Aluguel, Sala Exclusiva, Sala Dividida, that
\* the normalized column name c matches.
FirstGroup(c) ==
    LET hits == {g \in 1..Len(CANON) : GroupMatches(g, c)}
    IN  CANON[CHOOSE g \in hits : \A g2 \in hits : g <= g2]

\* C8: every column load_medicos_from_excel keeps carries the field of the
\* first keyword group its normalized name matches.
C8_FirstGroupWins ==
    \A f \in 1..Len(med_frames) :
        \A q \in 1..Len(med_frames[f].columns) :
            med_frames[f].columns[q] = FirstGroup(med_frames[f].names[q])

\* Header offset h succeeds on sheet sh: the parsed sheet is non-empty, a day
\* column is found by name or by the first-column fallback, and a shift
\* column is found.
Succeeds(sh, h) ==
    /\ Parse(sh, h) # Raise
    /\ LET d     == DropEmpty(Parse(sh, h))
           names == [i \in 1..Len(d.columns) |-> _normalize_col(d.columns[i])]
       IN  /\ ~Empty(d)
           /\ \/ \E i \in 1..Len(names) :
                    Contains(s_dia, names[i]) \/ ContainsAny(WEEKDAYS, names[i])
              \/ FirstColumnHasDays(d)
           /\ \E i \in 1..Len(names) :
                 ContainsAny({s_manha, s_manha_acc}, names[i]) \/ Contains(s_tarde, names[i])

\* C9: detect_header_and_parse returns the table of the smallest offset in
\* 0..4 that succeeds, and None exactly when no offset succeeds.
C9_FirstSucceedingOffset ==
    pc = "detected" =>
        LET ok == {k \in 1..Len(HEADERS) : Succeeds(sheet, HEADERS[k])}
        IN  /\ (detected = None) <=> (ok = {})
            /\ ok # {} =>
                  /\ detected.kind = "df"
                  /\ detected.header = HEADERS[CHOOSE k \in ok : \A j \in ok : k <= j]

\* The frames of the schedule sheets that parse to a non-empty table, in
\* workbook order.
RECURSIVE ParsedFrames(_, _, _)
ParsedFrames(book, dets, i) ==
    IF i > Len(book) THEN <<>>
    ELSE (IF dets[i].kind = "df" /\ ~Empty(dets[i])
          THEN <<Melt(book[i].name, dets[i])>> ELSE <<>>)
         \o ParsedFrames(book, dets, i + 1)

\* C10: a sheet that fails is skipped: neither extraction ends in an
\* exception, the schedule holds exactly the rows of the sheets that parsed,
\* and the script halts only when there is no schedule row.
C10_FailuresAreIsolated ==
    /\ pc \notin {"tidy_raised", "medicos_raised"}
    /\ pc \in {"check_empty", "stopped", "medicos", "done"} =>
          frames = ParsedFrames(excel, detected, 1)
    /\ pc = "stopped" => df = <<>>

====
